---------------------------- MODULE Spec2Model ----------------------------
(***************************************************************************)
(* Model of the bgf-dash client.                                           *)
(*                                                                         *)
(*  - RequestDetail (src/unnamed/part_000): the React component that       *)
(*    loads one request, its workflow and its comments, with the manual    *)
(*    retry and the add-comment handler.  Every await is a suspension      *)
(*    point; the code between two awaits runs as one step (JavaScript      *)
(*    runs a continuation to completion, React batches its setters and     *)
(*    renders before the next event).  The .then/.catch/.finally chain of  *)
(*    the retry runs in consecutive microtasks once its read has settled   *)
(*    and is one step too.  Each asynchronous call keeps a record: the     *)
(*    values its closure captured, where it is suspended (pc), the remote  *)
(*    calls it issued and how they ended.  The backend is not modelled:    *)
(*    every read in flight may resolve or reject at any time.              *)
(*  - notificationService (src/src/services/notification.service.ts):      *)
(*    the best-effort facade over the shared transport.                    *)
(*                                                                         *)
(* Specifications: Spec (RequestDetail, every handler), SpecLoad (the      *)
(* same without the comment box, whose handlers write comments,            *)
(* newComment and adds only), SpecFixedRoute (the same with an id that     *)
(* never changes), SpecNotif (notificationService).                        *)
(***************************************************************************)
EXTENDS Integers, Sequences, FiniteSets

(* ------------------------------ bounds --------------------------------- *)
\* fetch sequences started over the life of one RequestDetail instance
MaxFetches == 2
\* clicks on the Retry button
MaxRetries == 1
\* invocations of handleAddComment
MaxAdds == 2
\* largest limit / offset a caller passes to getAllNotifications
MaxPage == 2
\* fetch sequences and Retry clicks in the runs checked for progress
MaxLiveFetches == 1
MaxLiveRetries == 1

(* ------------------------------ values --------------------------------- *)
\* useParams() gives the route's id, or nothing
NoId == "none"
Ids == {"a", "b"}
IdParams == Ids \cup {NoId}

\* null for RequestData | null and WorkflowData | null
Null == [kind |-> "null", id |-> NoId]
\* what GET /requests/{id} and GET /workflows/by-request/{id} answer
RequestOf(i) == [kind |-> "request", id |-> i]
WorkflowOf(i) == [kind |-> "workflow", id |-> i]
\* a comment the backend already holds for request i, and the comment the
\* n-th POST /workflows/{id}/comments creates
StoredComment(i) == [by |-> "stored", id |-> i, n |-> 0]
CreatedComment(i, n) == [by |-> "created", id |-> i, n |-> n]
\* what GET /workflows/{id}/comments answers: a list, or an absent value
CommentsResponses(i) ==
    { [present |-> FALSE, items |-> <<>>],
      [present |-> TRUE, items |-> <<>>],
      [present |-> TRUE, items |-> <<StoredComment(i)>>] }

\* null for string | null; "" is the empty string, a different value
NullStr == "<null>"
NotFoundMessage == "Request not found or you don't have permission to view it."
FetchFailedMessage == "Failed to fetch request details"
\* err.message of a rejected request: some text, or empty / missing
ErrMessages == {"", "Network Error"}

\* the text typed in the comment box
Texts == {"", " ", "hi"}

VARIABLES
    id,          \* useParams().id of the current render
    mounted,     \* the effect of the first render has run
    loading, request, workflow, comments, newComment, error,   \* useState
    fetches,     \* the fetchRequestData calls, in the order they started
    retries,     \* the Retry clicks, in order
    adds,        \* the handleAddComment calls, in order
    ncall,       \* notificationService: the call made last
    nfilters     \* notificationService: the filters given to that call

component == <<id, mounted, loading, request, workflow, comments, newComment,
               error, fetches, retries, adds>>
service == <<ncall, nfilters>>
vars == <<id, mounted, loading, request, workflow, comments, newComment,
          error, fetches, retries, adds, ncall, nfilters>>

(* ----------------------------- helpers --------------------------------- *)
\* a remote call as it is issued: the operation and its argument
Call(op, arg) == [op |-> op, arg |-> arg]

\* JavaScript's a || b on strings: the empty string is falsy
OrStr(a, b) == IF a = "" THEN b ELSE a

\* commentsData || [] : an absent value is falsy, an array never is
OrEmpty(resp) == IF resp.present THEN resp.items ELSE <<>>

\* String.prototype.trim on the modelled texts
Trim(t) == IF t = " " THEN "" ELSE t

\* which of the three returns of the component renders
Branch ==
    IF loading THEN "loading"
    ELSE IF request = Null THEN "notfound"
    ELSE "populated"

(* ------------------------ RequestDetail: effect ------------------------ *)
\* fetchRequestData up to its first await: setLoading(true), setError(null),
\* getRequestById(id) issued
StartFetch(i) ==
    /\ loading' = TRUE
    /\ error' = NullStr
    /\ fetches' = Append(fetches,
           [id |-> i, pc |-> "primary",
            issued |-> <<Call("getRequestById", i)>>,
            results |-> <<>>])
    /\ UNCHANGED <<request, workflow, comments, newComment>>

\* the else branch of the effect: no id
SettleNoId ==
    /\ request' = Null
    /\ loading' = FALSE
    /\ UNCHANGED <<workflow, comments, newComment, error, fetches>>

\* the body of useEffect(..., [id]), run for the id i of the render
RunEffect(i) ==
    IF i # NoId THEN StartFetch(i) ELSE SettleNoId

\* the first render's effect
Mount ==
    /\ ~mounted
    /\ mounted' = TRUE
    /\ RunEffect(id)
    /\ UNCHANGED <<id, retries, adds,
                   ncall, nfilters>>

\* the route's id changes while the component stays mounted: the effect
\* runs again for the new id; nothing cancels the sequences in flight
ChangeId(i) ==
    /\ mounted
    /\ i # id
    /\ i # NoId => Len(fetches) < MaxFetches
    /\ id' = i
    /\ RunEffect(i)
    /\ UNCHANGED <<mounted, retries, adds,
                   ncall, nfilters>>

(* ------------------- RequestDetail: fetchRequestData ------------------- *)
Fetching(s, pc) == s \in 1..Len(fetches) /\ fetches[s].pc = pc

\* faulty variant of PrimaryOk: both dependent reads issued at once
PrimaryOk_FanOut(s) ==
    /\ Fetching(s, "primary")
    /\ request' = RequestOf(fetches[s].id)
    /\ fetches' = [fetches EXCEPT
           ![s].pc = "workflow",
           ![s].results = Append(@, "ok"),
           ![s].issued = @ \o <<Call("getWorkflowByRequestId", fetches[s].id),
                                Call("getComments", fetches[s].id)>>]
    /\ UNCHANGED <<id, mounted, loading, workflow, comments, newComment, error,
                   retries, adds,
                   ncall, nfilters>>

\* getRequestById resolved: setRequest, then getWorkflowByRequestId issued
PrimaryOk(s) ==
    /\ Fetching(s, "primary")
    /\ request' = RequestOf(fetches[s].id)
    /\ fetches' = [fetches EXCEPT
           ![s].pc = "workflow",
           ![s].results = Append(@, "ok"),
           ![s].issued = Append(@, Call("getWorkflowByRequestId", fetches[s].id))]
    /\ UNCHANGED <<id, mounted, loading, workflow, comments, newComment, error,
                   retries, adds,
                   ncall, nfilters>>

\* getWorkflowByRequestId resolved: setWorkflow, then getComments issued
WorkflowOk(s) ==
    /\ Fetching(s, "workflow")
    /\ workflow' = WorkflowOf(fetches[s].id)
    /\ fetches' = [fetches EXCEPT
           ![s].pc = "comments",
           ![s].results = Append(@, "ok"),
           ![s].issued = Append(@, Call("getComments", fetches[s].id))]
    /\ UNCHANGED <<id, mounted, loading, request, comments, newComment, error,
                   retries, adds,
                   ncall, nfilters>>

\* getComments resolved with resp: setComments(resp || []), then the
\* finally block: setLoading(false)
CommentsOk(s, resp) ==
    /\ Fetching(s, "comments")
    /\ resp \in CommentsResponses(fetches[s].id)
    /\ comments' = OrEmpty(resp)
    /\ loading' = FALSE
    /\ fetches' = [fetches EXCEPT
           ![s].pc = "done",
           ![s].results = Append(@, "ok")]
    /\ UNCHANGED <<id, mounted, request, workflow, newComment, error,
                   retries, adds,
                   ncall, nfilters>>

\* faulty variant of ReadFail: the catch block without setRequest(null)
ReadFail_KeepsRequest(s) ==
    /\ s \in 1..Len(fetches)
    /\ fetches[s].pc \in {"primary", "workflow", "comments"}
    /\ error' = NotFoundMessage
    /\ loading' = FALSE
    /\ fetches' = [fetches EXCEPT
           ![s].pc = "failed",
           ![s].results = Append(@, "fail")]
    /\ UNCHANGED <<id, mounted, request, workflow, comments, newComment,
                   retries, adds,
                   ncall, nfilters>>

\* faulty variant of ReadFail: no finally block, loading is left set
ReadFail_KeepsLoading(s) ==
    /\ s \in 1..Len(fetches)
    /\ fetches[s].pc \in {"primary", "workflow", "comments"}
    /\ error' = NotFoundMessage
    /\ request' = Null
    /\ fetches' = [fetches EXCEPT
           ![s].pc = "failed",
           ![s].results = Append(@, "fail")]
    /\ UNCHANGED <<id, mounted, loading, workflow, comments, newComment,
                   retries, adds,
                   ncall, nfilters>>

\* the read the sequence is waiting for rejected: the inner catch
\* (setError, setRequest(null)) and the finally block (setLoading(false)).
\* The outer catch cannot run: the inner one takes every rejection and
\* does not throw.
ReadFail(s) ==
    /\ s \in 1..Len(fetches)
    /\ fetches[s].pc \in {"primary", "workflow", "comments"}
    /\ error' = NotFoundMessage
    /\ request' = Null
    /\ loading' = FALSE
    /\ fetches' = [fetches EXCEPT
           ![s].pc = "failed",
           ![s].results = Append(@, "fail")]
    /\ UNCHANGED <<id, mounted, workflow, comments, newComment,
                   retries, adds,
                   ncall, nfilters>>

(* ------------------------ RequestDetail: Retry ------------------------- *)
\* onClick of the Retry button, rendered by the not-found branch only
RetryClick ==
    /\ mounted
    /\ Branch = "notfound"
    /\ Len(retries) < MaxRetries
    /\ loading' = TRUE
    /\ error' = NullStr
    /\ retries' = Append(retries,
           [arg |-> id, pc |-> "pending",
            issued |-> <<Call("getRequestById", id)>>])
    /\ UNCHANGED <<id, mounted, request, workflow, comments, newComment,
                   fetches, adds,
                   ncall, nfilters>>

Retrying(r) == r \in 1..Len(retries) /\ retries[r].pc = "pending"

\* .then(data => setRequest(data)) and .finally(() => setLoading(false)).
\* A click made while the id was absent asked for the request "undefined":
\* the backend holds none, so that read can only reject.
RetryOk(r) ==
    /\ Retrying(r)
    /\ retries[r].arg # NoId
    /\ request' = RequestOf(retries[r].arg)
    /\ loading' = FALSE
    /\ retries' = [retries EXCEPT ![r] = [@ EXCEPT !.pc = "done"]]
    /\ UNCHANGED <<id, mounted, workflow, comments, newComment, error,
                   fetches, adds,
                   ncall, nfilters>>

\* .catch(err => setError(err.message || '...')) and .finally
RetryFail(r, msg) ==
    /\ Retrying(r)
    /\ msg \in ErrMessages
    /\ error' = OrStr(msg, FetchFailedMessage)
    /\ loading' = FALSE
    /\ retries' = [retries EXCEPT ![r].pc = "failed"]
    /\ UNCHANGED <<id, mounted, request, workflow, comments, newComment,
                   fetches, adds,
                   ncall, nfilters>>

\* onDismiss of the ErrorMessage of the not-found branch
DismissError ==
    /\ mounted
    /\ Branch = "notfound"
    /\ error # NullStr
    /\ error' = NullStr
    /\ UNCHANGED <<id, mounted, loading, request, workflow, comments,
                   newComment, fetches, retries, adds,
                   ncall, nfilters>>

(* -------------------- RequestDetail: handleAddComment ------------------ *)
\* onChange of the comment box, rendered by the populated branch only
TypeComment(t) ==
    /\ mounted
    /\ Branch = "populated"
    /\ t \in Texts
    /\ t # newComment
    /\ newComment' = t
    /\ UNCHANGED <<id, mounted, loading, request, workflow, comments, error,
                   fetches, retries, adds,
                   ncall, nfilters>>

\* handleAddComment up to its await: the early return on a blank text,
\* then addComment(id, newComment) issued.  The handler is the closure of
\* the render it was created in: base is the comments of that render.
AddClick ==
    /\ mounted
    /\ Branch = "populated"
    /\ Trim(newComment) # ""
    /\ Len(adds) < MaxAdds
    /\ adds' = Append(adds,
           [arg |-> id, base |-> comments, pc |-> "pending",
            issued |-> <<Call("addComment", id)>>])
    /\ UNCHANGED <<id, mounted, loading, request, workflow, comments,
                   newComment, error, fetches, retries,
                   ncall, nfilters>>

\* a settled handleAddComment call: its closure (the comments it captured)
\* is released, its outcome and the call it issued are kept
Settled(add, pc) == [add EXCEPT !.pc = pc, !.base = <<>>]

Adding(a) == a \in 1..Len(adds) /\ adds[a].pc = "pending"

\* addComment resolved: setComments([...comments, comment]), setNewComment('')
AddOk(a) ==
    /\ Adding(a)
    /\ comments' = Append(adds[a].base, CreatedComment(adds[a].arg, a))
    /\ newComment' = ""
    /\ adds' = [adds EXCEPT ![a] = Settled(@, "done")]
    /\ UNCHANGED <<id, mounted, loading, request, workflow, error,
                   fetches, retries,
                   ncall, nfilters>>

\* addComment rejected: logged, nothing else
AddFail(a) ==
    /\ Adding(a)
    /\ adds' = [adds EXCEPT ![a] = Settled(@, "failed")]
    /\ UNCHANGED <<id, mounted, loading, request, workflow, comments,
                   newComment, error, fetches, retries,
                   ncall, nfilters>>

(* --------------------------- notificationService ----------------------- *)
\* an optional field of NotificationFilters: unset (undefined), or a value
Unset(v) == [set |-> FALSE, v |-> v]
Some(v) == [set |-> TRUE, v |-> v]
FilterKeys == {"is_read", "limit", "offset"}
Filters ==
    [is_read : {Unset(FALSE)} \cup {Some(x) : x \in BOOLEAN},
     limit : {Unset(0)} \cup {Some(n) : n \in 0..MaxPage},
     offset : {Unset(0)} \cup {Some(n) : n \in 0..MaxPage}]

\* faulty variant of Copies: is_read tested by truthiness as well
Copies_Truthy(filters, k) ==
    IF k = "is_read" THEN filters[k].set /\ filters[k].v
    ELSE filters[k].set /\ filters[k].v # 0

\* the three tests of getAllNotifications: is_read !== undefined, and the
\* truthiness of limit and of offset (undefined and 0 are falsy)
Copies(filters, k) ==
    IF k = "is_read" THEN filters[k].set
    ELSE filters[k].set /\ filters[k].v # 0

\* the params object handed to apiService.get: the copied keys only
BuildParams(filters) ==
    [k \in {x \in FilterKeys : Copies(filters, x)} |-> filters[k].v]

\* what the transport call of an operation does: resolves to a value of
\* the backend, or throws
NotifIds == {"n1", "n2"}
TransportValues(op) ==
    CASE op = "getAllNotifications" -> {"[]", "[n1, n2]"}
      [] op = "getUnreadCount" -> {"{count: 0}", "{count: 3}"}
      [] op = "markAsRead" -> {"{id, is_read: true}"}
      [] OTHER -> {"{message: 'done'}"}
Outcomes(op) ==
    {[threw |-> TRUE, value |-> "error"]}
        \cup {[threw |-> FALSE, value |-> v] : v \in TransportValues(op)}

\* faulty variant of Guarded: the catch block logs and rethrows
Guarded_Rethrows(out, fallback) ==
    [settled |-> IF out.threw THEN "rejected" ELSE "resolved",
     value |-> out.value]

\* try { return await <transport call>; } catch (error) { return fallback; }
Guarded(out, fallback) ==
    [settled |-> "resolved",
     value |-> IF out.threw THEN fallback ELSE out.value]

NoParams == [k \in {} |-> 0]
NoTarget == "-"

\* one call of the facade, as the caller and the transport see it
Made(op, target, params, out, res) ==
    [op |-> op, target |-> target, params |-> params, transport |-> out,
     settled |-> res.settled, result |-> res.value]

NoCall == Made("none", NoTarget, NoParams, [threw |-> FALSE, value |-> "none"],
               [settled |-> "none", value |-> "none"])

getAllNotifications(filters, out) ==
    Made("getAllNotifications", NoTarget, BuildParams(filters), out,
         Guarded(out, "[]"))

getUnreadCount(out) ==
    Made("getUnreadCount", NoTarget, NoParams, out,
         Guarded(out, "{count: 0}"))

markAsRead(n, out) ==
    Made("markAsRead", n, NoParams, out, Guarded(out, "null"))

markAllAsRead(out) ==
    Made("markAllAsRead", NoTarget, NoParams, out,
         Guarded(out, "{message: 'All notifications marked as read'}"))

deleteNotification(n, out) ==
    Made("deleteNotification", n, NoParams, out,
         Guarded(out, "{message: 'Notification deleted successfully'}"))

deleteAllNotifications(out) ==
    Made("deleteAllNotifications", NoTarget, NoParams, out,
         Guarded(out, "{message: 'All notifications deleted successfully'}"))

\* the filters of the call made last (history, for the claims on params)
CallGetAllNotifications(f, out) ==
    /\ f \in Filters
    /\ out \in Outcomes("getAllNotifications")
    /\ ncall' = getAllNotifications(f, out)
    /\ nfilters' = f
    /\ UNCHANGED component

CallGetUnreadCount(out) ==
    /\ out \in Outcomes("getUnreadCount")
    /\ ncall' = getUnreadCount(out)
    /\ UNCHANGED <<nfilters, component>>

CallMarkAsRead(n, out) ==
    /\ n \in NotifIds
    /\ out \in Outcomes("markAsRead")
    /\ ncall' = markAsRead(n, out)
    /\ UNCHANGED <<nfilters, component>>

CallMarkAllAsRead(out) ==
    /\ out \in Outcomes("markAllAsRead")
    /\ ncall' = markAllAsRead(out)
    /\ UNCHANGED <<nfilters, component>>

CallDeleteNotification(n, out) ==
    /\ n \in NotifIds
    /\ out \in Outcomes("deleteNotification")
    /\ ncall' = deleteNotification(n, out)
    /\ UNCHANGED <<nfilters, component>>

CallDeleteAllNotifications(out) ==
    /\ out \in Outcomes("deleteAllNotifications")
    /\ ncall' = deleteAllNotifications(out)
    /\ UNCHANGED <<nfilters, component>>

(* ----------------------------- specification --------------------------- *)
Init ==
    /\ id \in IdParams
    /\ mounted = FALSE
    /\ loading = TRUE
    /\ request = Null
    /\ workflow = Null
    /\ comments = <<>>
    /\ newComment = ""
    /\ error = NullStr
    /\ fetches = <<>>
    /\ retries = <<>>
    /\ adds = <<>>
    /\ ncall = NoCall
    /\ nfilters = [is_read |-> Unset(FALSE), limit |-> Unset(0), offset |-> Unset(0)]

\* the effect of useEffect(..., [id]): on mount and on every change of id
NextEffect ==
    \/ Mount
    \/ \E i \in IdParams : ChangeId(i)

\* the continuations of fetchRequestData
NextFetch ==
    \/ \E s \in 1..Len(fetches) : PrimaryOk(s)
    \/ \E s \in 1..Len(fetches) : WorkflowOk(s)
    \/ \E s \in 1..Len(fetches) : \E resp \in CommentsResponses(fetches[s].id) : CommentsOk(s, resp)
    \/ \E s \in 1..Len(fetches) : ReadFail(s)

\* the not-found branch: Retry and the error banner
NextRetry ==
    \/ RetryClick
    \/ \E r \in 1..Len(retries) : RetryOk(r)
    \/ \E r \in 1..Len(retries) : \E msg \in ErrMessages : RetryFail(r, msg)
    \/ DismissError

\* the comment box of the populated branch
NextComment ==
    \/ \E t \in Texts : TypeComment(t)
    \/ AddClick
    \/ \E a \in 1..Len(adds) : AddOk(a)
    \/ \E a \in 1..Len(adds) : AddFail(a)

\* the callers of notificationService
NextNotif ==
    \/ \E f \in Filters : \E out \in Outcomes("getAllNotifications") :
           CallGetAllNotifications(f, out)
    \/ \E out \in Outcomes("getUnreadCount") : CallGetUnreadCount(out)
    \/ \E n \in NotifIds : \E out \in Outcomes("markAsRead") : CallMarkAsRead(n, out)
    \/ \E out \in Outcomes("markAllAsRead") : CallMarkAllAsRead(out)
    \/ \E n \in NotifIds : \E out \in Outcomes("deleteNotification") :
           CallDeleteNotification(n, out)
    \/ \E out \in Outcomes("deleteAllNotifications") : CallDeleteAllNotifications(out)

\* RequestDetail, every handler
Next == NextEffect \/ NextFetch \/ NextRetry \/ NextComment
Spec == Init /\ [][Next]_vars

\* RequestDetail with the comment box left alone: loading, failing, retrying
NextLoad == NextEffect \/ NextFetch \/ NextRetry
SpecLoad == Init /\ [][NextLoad]_vars

\* a read in flight settles: the continuation of fetch sequence s, and the
\* promise chain of retry r, run once their read has resolved or rejected
SettleFetch(s) ==
    \/ PrimaryOk(s)
    \/ WorkflowOk(s)
    \/ \E resp \in CommentsResponses(fetches[s].id) : CommentsOk(s, resp)
    \/ ReadFail(s)
SettleRetry(r) ==
    \/ RetryOk(r)
    \/ \E msg \in ErrMessages : RetryFail(r, msg)

\* React runs the first render's effect and every issued read eventually
\* settles; the user (id changes, Retry, dismiss) is free
FairLoad ==
    /\ WF_vars(Mount)
    /\ \A s \in 1..MaxFetches : WF_vars(s <= Len(fetches) /\ SettleFetch(s))
    /\ \A r \in 1..MaxRetries : WF_vars(r <= Len(retries) /\ SettleRetry(r))

\* SpecLoad under that fairness
SpecLoadFair == SpecLoad /\ FairLoad

\* the same, for a user who starts at most MaxLiveFetches fetch sequences
\* and clicks Retry at most MaxLiveRetries times
LiveBound ==
    /\ Len(fetches') <= MaxLiveFetches
    /\ Len(retries') <= MaxLiveRetries
NextLoadLive ==
    \/ Mount /\ LiveBound
    \/ \E i \in IdParams : ChangeId(i) /\ LiveBound
    \/ NextFetch
    \/ RetryClick /\ LiveBound
    \/ \E r \in 1..Len(retries) : RetryOk(r)
    \/ \E r \in 1..Len(retries) : \E msg \in ErrMessages : RetryFail(r, msg)
    \/ DismissError
SpecLoadLive == Init /\ [][NextLoadLive]_vars /\ FairLoad

\* RequestDetail on a route whose id never changes
NextFixedRoute == Mount \/ NextFetch \/ NextRetry \/ NextComment
SpecFixedRoute == Init /\ [][NextFixedRoute]_vars

\* notificationService
SpecNotif == Init /\ [][NextNotif]_vars
(* ------------------------------- claims -------------------------------- *)
InFlight == {"primary", "workflow", "comments"}

\* steps, as seen from outside: fetch sequence s ends in its catch block,
\* ends after its third read, retry r settles, add-comment a resolves
FetchFails(s) == fetches[s].pc \in InFlight /\ fetches'[s].pc = "failed"
FetchSucceeds(s) == fetches[s].pc \in InFlight /\ fetches'[s].pc = "done"
RetryFails(r) == retries[r].pc = "pending" /\ retries'[r].pc = "failed"
RetrySucceeds(r) == retries[r].pc = "pending" /\ retries'[r].pc = "done"
RetryStarts == Len(retries') = Len(retries) + 1
AddSucceeds(a) == adds[a].pc = "pending" /\ adds'[a].pc = "done"

\* the remote calls issued so far by the operations of a list
RECURSIVE CountCalls(_)
CountCalls(ops) ==
    IF ops = <<>> THEN 0 ELSE Len(Head(ops).issued) + CountCalls(Tail(ops))
NumCalls == CountCalls(fetches) + CountCalls(retries) + CountCalls(adds)

\* no fetch sequence and no retry is waiting for a read
NoFetchInProgress ==
    /\ mounted
    /\ \A s \in 1..Len(fetches) : fetches[s].pc \notin InFlight
    /\ \A r \in 1..Len(retries) : retries[r].pc # "pending"

\* the comments a successful getComments(i) can leave displayed
FetchedComments(i) == {OrEmpty(resp) : resp \in CommentsResponses(i)}

\* C1: when a fetch sequence ends because one of its three reads failed,
\* the state it leaves has request null, a non-empty error message and
\* loading false (the not-found branch renders), whichever read failed.
C1_FailureEndsNotFound ==
    [][\A s \in 1..Len(fetches) :
          FetchFails(s) =>
              /\ request' = Null
              /\ error' \notin {NullStr, ""}
              /\ loading' = FALSE]_vars

\* C1 witness: a sequence failed at its second or third read, after it had
\* stored the request, and the not-found state is displayed.
C1_Witness ==
    \E s \in 1..Len(fetches) :
        /\ fetches[s].pc = "failed"
        /\ Len(fetches[s].results) >= 2
        /\ request = Null
        /\ error = NotFoundMessage
        /\ ~loading

\* C2: when a fetch sequence ends with its three reads succeeded, the state
\* it leaves is populated with exactly the three fetched values (comments
\* defaulted to empty), error null and loading false.
C2_SuccessEndsPopulated ==
    [][\A s \in 1..Len(fetches) :
          FetchSucceeds(s) =>
              /\ loading' = FALSE
              /\ request' = RequestOf(fetches[s].id)
              /\ workflow' = WorkflowOf(fetches[s].id)
              /\ comments' \in FetchedComments(fetches[s].id)
              /\ error' = NullStr]_vars

\* C3: whenever no fetch is in progress, request, workflow and comments are
\* all absent, or are the three values of one successful fetch.
C3_AbsentOrPopulated ==
    NoFetchInProgress =>
        \/ request = Null /\ workflow = Null /\ comments = <<>>
        \/ \E s \in 1..Len(fetches) :
              /\ fetches[s].pc = "done"
              /\ request = RequestOf(fetches[s].id)
              /\ workflow = WorkflowOf(fetches[s].id)
              /\ comments \in FetchedComments(fetches[s].id)

\* C4: the effect run for an absent id leaves request null and loading
\* false, and no step taken while the id is absent issues a remote call.
C4_AbsentIdNoCalls ==
    [][/\ (id' = NoId /\ (~mounted \/ id # NoId)) =>
              (request' = Null /\ loading' = FALSE)
       /\ id' = NoId => NumCalls' = NumCalls]_vars

\* C5: a Retry click sets loading, clears error and issues one
\* getRequestById and nothing else; when that read settles, workflow and
\* comments are as before, loading is false, and request is the fetched
\* value (success) or request is still null with error set (failure; stated
\* for a retry of a present id that is still the route's id).
C5_RetryPrimaryOnly ==
    [][/\ RetryStarts =>
              /\ loading' = TRUE /\ error' = NullStr
              /\ NumCalls' = NumCalls + 1
              /\ retries'[Len(retries')].issued = <<Call("getRequestById", id)>>
       /\ \A r \in 1..Len(retries) :
              /\ RetrySucceeds(r) =>
                     /\ request' = RequestOf(retries[r].arg)
                     /\ loading' = FALSE
                     /\ NumCalls' = NumCalls
                     /\ UNCHANGED <<workflow, comments>>
              /\ (RetryFails(r) /\ retries[r].arg # NoId /\ id = retries[r].arg) =>
                     /\ request' = Null
                     /\ error' \notin {NullStr, ""}
                     /\ loading' = FALSE
                     /\ NumCalls' = NumCalls
                     /\ UNCHANGED <<workflow, comments>>]_vars

\* C8: once every read in flight has settled, the displayed request is the
\* one of the route's current id (or none): no sequence or retry started
\* for an earlier id has overwritten it.  Stated for a current id that is
\* present, and for the request alone.
C8_ReflectsLatestId ==
    (NoFetchInProgress /\ id \in Ids) => (request = Null \/ request.id = id)

\* the order the claim gives for the reads of one sequence
ReadOrder == <<"getRequestById", "getWorkflowByRequestId", "getComments">>

\* C10: in every fetch sequence the reads issued so far are the first ones
\* of getRequestById, getWorkflowByRequestId, getComments, in that order;
\* all but the last issued have succeeded, so at most one is outstanding
\* and nothing is issued after a failure.
C10_ReadsSequential ==
    \A s \in 1..Len(fetches) :
        LET f == fetches[s] IN
        /\ Len(f.issued) \in 1..Len(ReadOrder)
        /\ \A k \in 1..Len(f.issued) : f.issued[k] = Call(ReadOrder[k], f.id)
        /\ Len(f.results) \in {Len(f.issued) - 1, Len(f.issued)}
        /\ \A k \in 1..Len(f.results) : k < Len(f.issued) => f.results[k] = "ok"
        /\ f.pc \in InFlight <=> Len(f.results) = Len(f.issued) - 1

\* C10 witness: a sequence whose second read failed never issued the third,
\* while another sequence issued all three.
C10_Witness ==
    /\ \E s \in 1..Len(fetches) :
           /\ fetches[s].pc = "failed"
           /\ fetches[s].results = <<"ok", "fail">>
           /\ Len(fetches[s].issued) = 2
    /\ \E s \in 1..Len(fetches) : Len(fetches[s].issued) = 3
\* the fallback the claim gives for each operation
DocumentedFallback(op) ==
    CASE op = "getAllNotifications" -> "[]"
      [] op = "getUnreadCount" -> "{count: 0}"
      [] op = "markAsRead" -> "null"
      [] op = "markAllAsRead" -> "{message: 'All notifications marked as read'}"
      [] op = "deleteNotification" -> "{message: 'Notification deleted successfully'}"
      [] op = "deleteAllNotifications" -> "{message: 'All notifications deleted successfully'}"

\* C6: every best-effort operation of notificationService resolves; when
\* its transport call threw, to the fallback documented for it, otherwise
\* to the value the transport gave.
C6_BestEffortResolves ==
    ncall.op # "none" =>
        /\ ncall.settled = "resolved"
        /\ ncall.transport.threw => ncall.result = DocumentedFallback(ncall.op)
        /\ ~ncall.transport.threw => ncall.result = ncall.transport.value

\* C6 witness: markAsRead whose transport call threw resolved to null.
C6_Witness ==
    /\ ncall.op = "markAsRead"
    /\ ncall.transport.threw
    /\ ncall.settled = "resolved"
    /\ ncall.result = "null"

\* C7: a successful add-comment call returning C leaves the visible
\* comments equal to the comments visible just before, with C appended.
C7_AppendsToVisible ==
    [][\A a \in 1..Len(adds) :
          AddSucceeds(a) =>
              comments' = Append(comments, CreatedComment(adds[a].arg, a))]_vars

\* C9 (as claimed): the params of getAllNotifications hold a key exactly
\* when the filters set it, with the filter's value.
C9_ParamsIffSet ==
    ncall.op = "getAllNotifications" =>
        /\ DOMAIN ncall.params = {k \in FilterKeys : nfilters[k].set}
        /\ \A k \in DOMAIN ncall.params : ncall.params[k] = nfilters[k].v

\* C9 (amended): the params hold is_read exactly when the filters set it,
\* and limit / offset exactly when the filters set them to a non-zero
\* number; each key carries the filter's value; an unset key is left out.
C9_ParamsIffSetAndNonZero ==
    ncall.op = "getAllNotifications" =>
        /\ "is_read" \in DOMAIN ncall.params <=> nfilters.is_read.set
        /\ \A k \in {"limit", "offset"} :
               k \in DOMAIN ncall.params <=> (nfilters[k].set /\ nfilters[k].v > 0)
        /\ \A k \in DOMAIN ncall.params :
               nfilters[k].set /\ ncall.params[k] = nfilters[k].v

\* C9 witness: is_read: false is sent, limit: 0 is left out, the offset is
\* sent as given.
C9_Witness ==
    /\ ncall.op = "getAllNotifications"
    /\ nfilters.is_read = Some(FALSE)
    /\ nfilters.limit = Some(0)
    /\ nfilters.offset = Some(MaxPage)
    /\ DOMAIN ncall.params = {"is_read", "offset"}
    /\ ncall.params["is_read"] = FALSE
    /\ ncall.params["offset"] = MaxPage

\* a fetch sequence or a retry is waiting for a read
FetchPending(s) == s <= Len(fetches) /\ fetches[s].pc \in InFlight
RetryPending(r) == r <= Len(retries) /\ retries[r].pc = "pending"

\* C11: provided every issued read settles, every fetch sequence and every
\* retry comes to its end, the step that ends it (success or failure) sets
\* loading to false, and whenever loading is set it is cleared later: the
\* view always leaves the loading branch.
C11_LoadingNeverStuck ==
    /\ [][/\ \A s \in 1..Len(fetches) :
                (FetchFails(s) \/ FetchSucceeds(s)) => loading' = FALSE
          /\ \A r \in 1..Len(retries) :
                (RetryFails(r) \/ RetrySucceeds(r)) => loading' = FALSE]_vars
    /\ \A s \in 1..MaxFetches : FetchPending(s) ~> ~FetchPending(s)
    /\ \A r \in 1..MaxRetries : RetryPending(r) ~> ~RetryPending(r)
    /\ loading ~> ~loading

\* C11 witness: loading is false after a fetch sequence ended in its catch
\* block and a retry has settled, with nothing left in flight.
C11_Witness ==
    /\ ~loading
    /\ NoFetchInProgress
    /\ \E s \in 1..Len(fetches) : fetches[s].pc = "failed"
    /\ \E r \in 1..Len(retries) : retries[r].pc \in {"done", "failed"}
=============================================================================
